---- MODULE Spec2Model ----
(***************************************************************************)
(* Model of convert_csv_to_json.py: the script reads correl.csv into a     *)
(* list of rows, takes the node names from the header row, reduces the     *)
(* data rows to a sparse upper-triangular mapping, writes the document to  *)
(* correl_data.json and prints two lines.                                  *)
(*                                                                         *)
(* A text cell is a sequence of one-character strings.  A parsed number is *)
(* a pair <<m, e>> standing for m * 10^e with m not divisible by 10 (or    *)
(* <<0, 0>>), so that equal decimal literals parse to equal values.        *)
(***************************************************************************)
EXTENDS Integers, Sequences, FiniteSets, TLC

VARIABLES rows, headers, correlations, i, j, node_name, pc, error, outfile, console

vars == <<rows, headers, correlations, i, j, node_name, pc, error, outfile, console>>

-----------------------------------------------------------------------------
(* Bounds of the input tables.                                             *)

\* most node names in a header row
MaxNodes == 2
\* most data rows in a table
MaxRows == 2
\* most cells after the name cell, summed over the data rows of a table
MaxCells == 2

-----------------------------------------------------------------------------
(* Text cells.                                                             *)

NamePool == << <<"A">>, <<"B">>, <<"C">>, <<"D">> >>

Names == {NamePool[k] : k \in 1..MaxNodes}

\* the corner cell of the header row
Corner == <<>>

\* "", " ", "n/a", "5"
CellValues == { <<>>, <<" ">>, <<"n", "/", "a">>, <<"5">> }

-----------------------------------------------------------------------------
(* str.strip() and float().                                                *)

IsSpace(c) == c \in {" ", "\t"}

IsDigit(c) == c \in {"0", "1", "2", "3", "4", "5", "6", "7", "8", "9"}

DigitVal(c) ==
    CASE c = "0" -> 0 [] c = "1" -> 1 [] c = "2" -> 2 [] c = "3" -> 3
      [] c = "4" -> 4 [] c = "5" -> 5 [] c = "6" -> 6 [] c = "7" -> 7
      [] c = "8" -> 8 [] c = "9" -> 9

RECURSIVE LStrip(_)
LStrip(s) == IF s # <<>> /\ IsSpace(Head(s)) THEN LStrip(Tail(s)) ELSE s

RECURSIVE RStrip(_)
RStrip(s) ==
    IF s # <<>> /\ IsSpace(s[Len(s)]) THEN RStrip(SubSeq(s, 1, Len(s) - 1)) ELSE s

Strip(s) == RStrip(LStrip(s))

\* Python truthiness of a str: the empty string is false
Truthy(s) == s # <<>>

RECURSIVE DigitsToNat(_)
DigitsToNat(ds) ==
    IF ds = <<>> THEN 0
    ELSE 10 * DigitsToNat(SubSeq(ds, 1, Len(ds) - 1)) + DigitVal(ds[Len(ds)])

RECURSIVE Normalize(_, _)
Normalize(m, e) ==
    IF m = 0 THEN <<0, 0>>
    ELSE IF e < 0 /\ m % 10 = 0 THEN Normalize(m \div 10, e + 1)
    ELSE <<m, e>>

ValueError == "ValueError"
IndexError == "IndexError"
NoError == "none"

\* float(value) on the literals [ws] [sign] digits [. digits] [ws], nan, inf
\* and infinity; every other text raises ValueError.  The result is
\* [exc, val]: val = <<"num", m, e>> is the number m * 10^e.
Float(value) ==
    LET t    == Strip(value)
        sgn  == IF t # <<>> /\ Head(t) \in {"+", "-"} THEN Head(t) ELSE ""
        u    == IF sgn = "" THEN t ELSE Tail(t)
        dots == {k \in 1..Len(u) : u[k] = "."}
        ds   == SelectSeq(u, IsDigit)
        frac == IF dots = {} THEN 0 ELSE Len(u) - (CHOOSE k \in dots : TRUE)
        mag  == DigitsToNat(ds)
        num  == Normalize(IF sgn = "-" THEN 0 - mag ELSE mag, 0 - frac)
    IN  IF u = <<"n", "a", "n">>
        THEN [exc |-> NoError, val |-> <<"nan", 0, 0>>]
        ELSE IF u \in { <<"i", "n", "f">>, <<"i", "n", "f", "i", "n", "i", "t", "y">> }
        THEN [exc |-> NoError, val |-> <<"inf", IF sgn = "-" THEN 0 - 1 ELSE 1, 0>>]
        ELSE IF /\ \A k \in 1..Len(u) : IsDigit(u[k]) \/ u[k] = "."
                /\ Cardinality(dots) <= 1
                /\ ds # <<>>
        THEN [exc |-> NoError, val |-> <<"num", num[1], num[2]>>]
        ELSE [exc |-> ValueError, val |-> <<"none", 0, 0>>]

-----------------------------------------------------------------------------
(* dict operations.  A dict is a function; insertion order is not kept.    *)

EmptyDict == [k \in {} |-> <<>>]

\* d[key] = val
DictSet(d, key, val) ==
    [k \in DOMAIN d \cup {key} |-> IF k = key THEN val ELSE d[k]]

-----------------------------------------------------------------------------
(* The script, statement by statement.                                     *)

\* variant: rows[0], the corner cell kept
HeadersOf_NoSkip(rs) == rs[1]

\* rows[0][1:]
HeadersOf(rs) == SubSeq(rs[1], 2, Len(rs[1]))

\* rows[1:]
DataRows(rs) == SubSeq(rs, 2, Len(rs))

\* the row that enumerate(rows[1:], start=0) yields with index ii
DataRow(ii) == DataRows(rows)[ii + 1]

\* row[1:]
RowCells(row) == SubSeq(row, 2, Len(row))

\* the value that enumerate(row[1:], start=0) yields with index jj
CellAt(ii, jj) == RowCells(DataRow(ii))[jj + 1]

\* variant: a row shorter than the header row is rejected too
RowStartFails_Ragged(row) == Len(row) = 0 \/ Len(row) < Len(rows[1])

\* node_name = row[0] raises IndexError on a row with no cell
RowStartFails(row) == Len(row) = 0

\* variant: correlations.setdefault(node_name, {})
FreshInner_KeepExisting(corr, name) ==
    IF name \in DOMAIN corr THEN corr ELSE DictSet(corr, name, EmptyDict)

\* correlations[node_name] = {}
FreshInner(corr, name) == DictSet(corr, name, EmptyDict)

\* variant: correlations[node_name][node_name] = corr_value
StoreEntry_UnderRowName(corr, name, key, val) ==
    DictSet(corr, name, DictSet(corr[name], name, val))

\* correlations[node_name][other_node] = corr_value
StoreEntry(corr, name, key, val) == DictSet(corr, name, DictSet(corr[name], key, val))

\* if value and value.strip()
NotBlank(value) == Truthy(value) /\ Truthy(Strip(value))

\* variant: if j >= i
UpperTriangle_OrEqual(jj, ii) == jj >= ii

\* variant: if j != i
UpperTriangle_NotEqual(jj, ii) == jj # ii

\* if j > i
UpperTriangle(jj, ii) == jj > ii

\* variant: no except clause matches
Caught_Nothing(exc) == FALSE

\* variant: a bare except
Caught_Everything(exc) == exc # NoError

\* except ValueError
Caught(exc) == exc = ValueError

\* headers[j]: IndexError when j is past the end (j is never negative)
HeaderLookup(jj) ==
    IF jj < Len(headers)
    THEN [exc |-> NoError, val |-> headers[jj + 1]]
    ELSE [exc |-> IndexError, val |-> <<>>]

\* variant: the body stores without the test j > i
TryBody_NoTriangleTest(value, ii, jj) ==
    LET parsed == Float(value)
        looked == HeaderLookup(jj)
    IN  IF parsed.exc # NoError
        THEN [exc |-> parsed.exc, store |-> FALSE, key |-> <<>>, val |-> parsed.val]
        ELSE IF looked.exc # NoError
        THEN [exc |-> looked.exc, store |-> FALSE, key |-> <<>>, val |-> parsed.val]
        ELSE [exc |-> NoError, store |-> TRUE, key |-> looked.val, val |-> parsed.val]

\* the body of the try statement for one cell: the exception it raises, whether
\* it stores, and the key and value it stores
TryBody(value, ii, jj) ==
    LET parsed == Float(value)
        looked == HeaderLookup(jj)
    IN  IF parsed.exc # NoError
        THEN [exc |-> parsed.exc, store |-> FALSE, key |-> <<>>, val |-> parsed.val]
        ELSE IF looked.exc # NoError
        THEN [exc |-> looked.exc, store |-> FALSE, key |-> <<>>, val |-> parsed.val]
        ELSE [exc |-> NoError, store |-> UpperTriangle(jj, ii),
              key |-> looked.val, val |-> parsed.val]

\* output = {"nodes": headers, "correlations": correlations}; json.dump keeps
\* the structure, which is what the file is modelled to hold
OutputDocument(hs, corr) == [nodes |-> hs, correlations |-> corr]

RECURSIVE Join(_, _)
\* sep.join(strs)
Join(sep, strs) ==
    IF strs = <<>> THEN <<>>
    ELSE IF Len(strs) = 1 THEN strs[1]
    ELSE strs[1] \o sep \o Join(sep, Tail(strs))

-----------------------------------------------------------------------------
(* The input tables: what csv.reader can hand to the script.               *)

\* the number of cells after the name cells in the first n rows of widths w
RECURSIVE SumWidths(_, _)
SumWidths(w, n) ==
    IF n = 0 THEN 0
    ELSE SumWidths(w, n - 1) + (IF w[n] > 0 THEN w[n] ELSE 0)

\* the place of a name in the pool
PoolIndex(name) == CHOOSE k \in 1..Len(NamePool) : NamePool[k] = name

\* Node names are opaque texts, so the header's names are drawn up to
\* renaming: each is an earlier name of the header or the next unused name of
\* the pool.  <<>> is a header line with no cell at all.
HeaderRows ==
    {<<>>} \cup
    UNION {{<<Corner>> \o ns : ns \in
              {x \in [1..n -> Names] :
                 \A k \in 1..n :
                    PoolIndex(x[k]) <= 1 + Cardinality({x[m] : m \in 1..(k - 1)})}}
           : n \in 0..MaxNodes}

\* ,A,B,C / A,,0.5,0.2 / B,,,0.9 / C,,,, : the table of scenario A
ScenarioA ==
    << << <<>>, <<"A">>, <<"B">>, <<"C">> >>,
       << <<"A">>, <<>>, <<"0", ".", "5">>, <<"0", ".", "2">> >>,
       << <<"B">>, <<>>, <<>>, <<"0", ".", "9">> >>,
       << <<"C">>, <<>>, <<>>, <<>>, <<>> >> >>

\* ,A,B,C,D / A,,NA,0.2 / B,0.7,, -1.20 ,+3. / C : a non-numeric cell in the
\* upper triangle, a numeric one in the lower triangle, two short rows
ScenarioBC ==
    << << <<>>, <<"A">>, <<"B">>, <<"C">>, <<"D">> >>,
       << <<"A">>, <<>>, <<"N", "A">>, <<"0", ".", "2">> >>,
       << <<"B">>, <<"0", ".", "7">>, <<>>, <<" ", "-", "1", ".", "2", "0", " ">>,
          <<"+", "3", ".">> >>,
       << <<"C">> >> >>

\* ,A,B / A,,0.5,n/a,0.9 : a numeric cell past the header's last name
ScenarioD ==
    << << <<>>, <<"A">>, <<"B">> >>,
       << <<"A">>, <<>>, <<"0", ".", "5">>, <<"n", "/", "a">>, <<"0", ".", "9">> >> >>

\* the tables of the scenarios, then every table within the bounds: a header
\* row, nr data rows of widths w (-1: no cell at all; w >= 0: a name cell and w
\* more cells), names nm and cells c
InitTable(t) ==
    \/ t \in {<<>>, ScenarioA, ScenarioBC, ScenarioD}
    \/ \E hrow \in HeaderRows :
       \E nr \in 0..MaxRows :
       \E w \in {x \in [1..nr -> (0 - 1)..MaxCells] : SumWidths(x, nr) <= MaxCells} :
       \E nm \in [{r \in 1..nr : w[r] >= 0} -> Names] :
       \E c \in [{p \in (1..nr) \X (1..MaxCells) : p[2] <= w[p[1]]} -> CellValues] :
          t = <<hrow>> \o
              [r \in 1..nr |->
                 IF w[r] < 0 THEN <<>>
                 ELSE <<nm[r]>> \o [k \in 1..w[r] |-> c[<<r, k>>]]]

Init ==
    /\ InitTable(rows)
    /\ headers = <<>>
    /\ correlations = EmptyDict
    /\ i = 0
    /\ j = 0
    /\ node_name = <<>>
    /\ pc = "headers"
    /\ error = NoError
    /\ outfile = <<>>
    /\ console = <<>>

\* line 11
ReadHeaders ==
    /\ pc = "headers" /\ error = NoError
    /\ IF rows = <<>>
       THEN /\ error' = IndexError
            /\ UNCHANGED <<headers, pc>>
       ELSE /\ headers' = HeadersOf(rows)
            /\ pc' = "loop"
            /\ UNCHANGED error
    /\ UNCHANGED <<rows, correlations, i, j, node_name, outfile, console>>

\* lines 16-20: the next data row, its name and its fresh inner dict
RowStart ==
    /\ pc = "loop" /\ error = NoError
    /\ i < Len(DataRows(rows))
    /\ LET row == DataRow(i)
       IN  IF RowStartFails(row)
           THEN /\ error' = IndexError
                /\ UNCHANGED <<correlations, i, j, node_name, pc>>
           ELSE /\ node_name' = row[1]
                /\ correlations' = FreshInner(correlations, row[1])
                /\ j' = 0
                /\ IF RowCells(row) = <<>>
                   THEN i' = i + 1 /\ pc' = "loop"
                   ELSE i' = i /\ pc' = "cells"
                /\ UNCHANGED error
    /\ UNCHANGED <<rows, headers, outfile, console>>

\* lines 22-32: one cell of the current row
Cell ==
    /\ pc = "cells" /\ error = NoError
    /\ LET value == CellAt(i, j)
           body  == TryBody(value, i, j)
           last  == j + 1 = Len(RowCells(DataRow(i)))
           next  == /\ j' = j + 1
                    /\ IF last THEN i' = i + 1 /\ pc' = "loop"
                               ELSE i' = i /\ pc' = "cells"
                    /\ UNCHANGED error
       IN  IF ~NotBlank(value) \/ Caught(body.exc)
           THEN next /\ UNCHANGED correlations
           ELSE IF body.exc # NoError
           THEN /\ error' = body.exc
                /\ UNCHANGED <<correlations, i, j, pc>>
           ELSE /\ next
                /\ correlations' =
                     IF body.store
                     THEN StoreEntry(correlations, node_name, body.key, body.val)
                     ELSE correlations
    /\ UNCHANGED <<rows, headers, node_name, outfile, console>>

\* lines 35-42
WriteOutput ==
    /\ pc = "loop" /\ error = NoError
    /\ i >= Len(DataRows(rows))
    /\ outfile' = Append(outfile, OutputDocument(headers, correlations))
    /\ pc' = "print"
    /\ UNCHANGED <<rows, headers, correlations, i, j, node_name, error, console>>

\* lines 44-45
PrintSummary ==
    /\ pc = "print" /\ error = NoError
    /\ console' = console \o
          << <<"Converted ", Len(headers), " nodes to correl_data.json">>,
             <<"Nodes: ", Join(<<",", " ">>, headers)>> >>
    /\ pc' = "done"
    /\ UNCHANGED <<rows, headers, correlations, i, j, node_name, error, outfile>>

Next == ReadHeaders \/ RowStart \/ Cell \/ WriteOutput \/ PrintSummary

Spec == Init /\ [][Next]_vars

-----------------------------------------------------------------------------
(* Vocabulary of the properties.  Data rows and the cells after the name   *)
(* cell are counted from 0, as the two enumerate() calls count them.       *)

NumDataRows == IF rows = <<>> THEN 0 ELSE Len(rows) - 1

\* the number of cells after the name cell of data row r
Width(r) == IF Len(rows[r + 2]) = 0 THEN 0 ELSE Len(rows[r + 2]) - 1

\* the cell at intra-row position c of data row r
CellOf(r, c) == rows[r + 2][c + 2]

\* the cell is not empty, not whitespace-only and parses as a number
Numeric(v) == v # <<>> /\ Strip(v) # <<>> /\ Float(v).exc = NoError

\* the document has been written
Written == Len(outfile) = 1

Doc == outfile[1]

\* the run is over: it raised an exception nothing catches, or it ran to its
\* last statement (these are the states in which no step is enabled)
Stopped == error # NoError \/ pc = "done"

\* the elements of a sequence
Range(sq) == {sq[k] : k \in 1..Len(sq)}

\* a header with a corner cell and n unique names, and n data rows whose first
\* cells are those names in header order
WellFormed ==
    /\ rows # <<>>
    /\ Len(rows[1]) >= 1
    /\ Len(rows) = Len(rows[1])
    /\ \A a, b \in 2..Len(rows[1]) : a # b => rows[1][a] # rows[1][b]
    /\ \A r \in 2..Len(rows) : Len(rows[r]) >= 1 /\ rows[r][1] = rows[1][r]

\* C1: for a well-formed table, correlations[nodes[r]] of the written document
\* has the key nodes[c] exactly when c > r and the cell at position c of data
\* row r exists, is not blank and parses as a number; the value stored is that
\* cell's parsed value.
C1_UpperTriangleExact ==
    (Written /\ WellFormed) =>
        LET nodes == Doc.nodes
            corr  == Doc.correlations
        IN  \A r, c \in 0..(Len(nodes) - 1) :
               LET valid == c > r /\ c < Width(r) /\ Numeric(CellOf(r, c))
               IN  /\ nodes[r + 1] \in DOMAIN corr
                   /\ (nodes[c + 1] \in DOMAIN corr[nodes[r + 1]]) <=> valid
                   /\ valid => corr[nodes[r + 1]][nodes[c + 1]] = Float(CellOf(r, c)).val

\* scenario A has been reduced to the document the scenario expects
C1_Witness ==
    /\ rows = ScenarioA
    /\ pc = "done"
    /\ Written
    /\ Doc.nodes = << <<"A">>, <<"B">>, <<"C">> >>
    /\ DOMAIN Doc.correlations = { <<"A">>, <<"B">>, <<"C">> }
    /\ DOMAIN Doc.correlations[<<"A">>] = { <<"B">>, <<"C">> }
    /\ Doc.correlations[<<"A">>][<<"B">>] = <<"num", 5, 0 - 1>>
    /\ Doc.correlations[<<"A">>][<<"C">>] = <<"num", 2, 0 - 1>>
    /\ DOMAIN Doc.correlations[<<"B">>] = { <<"C">> }
    /\ Doc.correlations[<<"B">>][<<"C">>] = <<"num", 9, 0 - 1>>
    /\ DOMAIN Doc.correlations[<<"C">>] = {}

\* every entry of correlations comes from a cell of a data row already reached,
\* at a position c past the row's index r, and sits under the key headers[c]
Provenance ==
    \A a \in DOMAIN correlations : \A b \in DOMAIN correlations[a] :
        \E r \in 0..(NumDataRows - 1) : \E c \in 0..(Width(r) - 1) :
            /\ r < i \/ (r = i /\ pc = "cells" /\ c < j)
            /\ c > r
            /\ rows[r + 2][1] = a
            /\ c < Len(headers) /\ headers[c + 1] = b
            /\ Numeric(CellOf(r, c))
            /\ correlations[a][b] = Float(CellOf(r, c)).val

\* a step taken at a cell whose position is not past the row's index inserts
\* nothing
NoLowerInsert == (pc = "cells" /\ j <= i) => correlations' = correlations

\* C2: in every state of the reduction pass, for any table, each entry of
\* correlations was written from a cell at position c of a data row of index r
\* with c > r and is stored under headers[c]; no cell with c <= r causes an
\* insertion, even a numeric one.
C2_EntriesFromUpperCells == []Provenance /\ [][NoLowerInsert]_vars

\* in the middle of the pass an entry is there, and the cell now reached is a
\* numeric one of the lower triangle
C2_Witness ==
    /\ pc = "cells"
    /\ error = NoError
    /\ j <= i
    /\ Numeric(CellOf(i, j))
    /\ \E a \in DOMAIN correlations : correlations[a] # EmptyDict

\* the first place of a name in a sequence that holds it
Index(x, sq) == CHOOSE k \in 1..Len(sq) : sq[k] = x /\ \A m \in 1..(k - 1) : sq[m] # x

\* every retained entry (a, b) of the document has b after a in nodes
NameOrdered ==
    \A a \in DOMAIN Doc.correlations : \A b \in DOMAIN Doc.correlations[a] :
        /\ a \in Range(Doc.nodes)
        /\ b \in Range(Doc.nodes)
        /\ Index(b, Doc.nodes) > Index(a, Doc.nodes)
        /\ a # b

\* the header's names are unique and data row r carries the name nodes[r]
RowsFollowHeader ==
    /\ rows # <<>>
    /\ Len(rows) <= Len(rows[1])
    /\ \A a, b \in 2..Len(rows[1]) : a # b => rows[1][a] # rows[1][b]
    /\ \A r \in 2..Len(rows) : Len(rows[r]) >= 1 /\ rows[r][1] = rows[1][r]

FirstCells == {rows[r + 2][1] : r \in 0..(NumDataRows - 1)}

\* the positions of data row r whose cells are recorded
ValidUpper(r) ==
    {c \in 0..(Width(r) - 1) : c > r /\ c < Len(headers) /\ Numeric(CellOf(r, c))}

\* the entries recorded from data row r: under each key the value of the last
\* cell stored under it
RowEntries(r) ==
    [b \in {headers[c + 1] : c \in ValidUpper(r)} |->
        LET cs   == {c \in ValidUpper(r) : headers[c + 1] = b}
            last == CHOOSE c \in cs : \A d \in cs : d <= c
        IN  Float(CellOf(r, last)).val]

\* no later data row carries the first cell of data row r
LastOfName(r) ==
    \A q \in (r + 1)..(NumDataRows - 1) : rows[q + 2][1] # rows[r + 2][1]

\* C4 as stated: on every completed run correlations has as many keys as there
\* are data rows, each data row's first cell is a key, and the mapping under
\* it holds the entries recorded from that row.
C4_Original ==
    Written =>
        /\ Cardinality(DOMAIN Doc.correlations) = NumDataRows
        /\ \A r \in 0..(NumDataRows - 1) :
              /\ rows[r + 2][1] \in DOMAIN Doc.correlations
              /\ Doc.correlations[rows[r + 2][1]] = RowEntries(r)

\* C4, amended: on every completed run the keys of correlations are the
\* distinct first cells of the data rows, and the mapping under a first cell
\* holds the entries recorded from the last data row that carries it.
C4_OneEntryPerDistinctName ==
    Written =>
        /\ DOMAIN Doc.correlations = FirstCells
        /\ Cardinality(DOMAIN Doc.correlations) = Cardinality(FirstCells)
        /\ \A r \in 0..(NumDataRows - 1) :
              LastOfName(r) => Doc.correlations[rows[r + 2][1]] = RowEntries(r)

\* a completed run where two data rows carry the same first cell, the earlier
\* one recorded an entry and the later one records something else
C4_Witness ==
    /\ Written
    /\ \E r, q \in 0..(NumDataRows - 1) :
          /\ r < q
          /\ rows[r + 2][1] = rows[q + 2][1]
          /\ LastOfName(q)
          /\ RowEntries(r) # EmptyDict
          /\ Doc.correlations[rows[q + 2][1]] # RowEntries(r)

InnerKeysAreNodes ==
    \A a \in DOMAIN Doc.correlations : DOMAIN Doc.correlations[a] \subseteq Range(Doc.nodes)

\* C5 as stated: in the document of every completed run every outer key and
\* every inner key of correlations is an element of nodes.
C5_Original ==
    Written => (DOMAIN Doc.correlations \subseteq Range(Doc.nodes) /\ InnerKeysAreNodes)

\* C5, amended: in the document of every completed run every inner key of
\* correlations is an element of nodes, and every outer key is the first cell
\* of a data row (an element of nodes only if that cell is a header name).
C5_KeysDrawnFromInput ==
    Written => (DOMAIN Doc.correlations \subseteq FirstCells /\ InnerKeysAreNodes)

\* a completed run whose document has an outer key that is no node, with an
\* inner key under it
C5_Witness ==
    /\ Written
    /\ \E a \in DOMAIN Doc.correlations :
          a \notin Range(Doc.nodes) /\ Doc.correlations[a] # EmptyDict

\* headers holds the header row's cells from index 1 onward, in order
HeaderTail == \A k \in 1..Len(headers) : headers[k] = rows[1][k + 1]

\* C6 as stated: for every table with a header row, nodes is the header row's
\* cells from index 1 onward and len(nodes) = len(header row) - 1, also for a
\* header row with only the corner cell or with no cell at all.
C6_Original ==
    (pc # "headers") => (HeaderTail /\ Len(headers) = Len(rows[1]) - 1)

\* C6, amended: nodes is the header row's cells from index 1 onward;
\* len(nodes) = len(header row) - 1 for a header row with at least one cell,
\* and len(nodes) = 0 for a header row with no cell at all.
C6_NodesAreHeaderTail ==
    (pc # "headers") =>
        /\ HeaderTail
        /\ Len(headers) = IF Len(rows[1]) = 0 THEN 0 ELSE Len(rows[1]) - 1
        /\ Written => Doc.nodes = headers

\* the document of a table whose header row has no cell at all
C6_Witness == Written /\ rows[1] = <<>> /\ Doc.nodes = <<>>

\* C7: a numeric cell at position c <= r of data row r is discarded with no
\* error and no record, for every table shape, also when c is at or beyond
\* the number of header names.
C7_LowerNumericDiscarded ==
    (pc = "cells" /\ j <= i /\ Numeric(CellOf(i, j))) => error = NoError

\* the data row in hand and the number of its cells already passed
CurRow == IF pc = "cells" THEN i ELSE i - 1
Passed == IF pc = "cells" THEN j ELSE Width(i - 1)
InRow == pc = "cells" \/ (pc = "loop" /\ i > 0)

\* C8: a cell that is empty, whitespace-only or non-numeric never makes the
\* run fail and never produces an entry, at any position of any data row: the
\* keys of the row's mapping are exactly those of the numeric cells passed so
\* far at positions past the row's index, so the other valid cells of the row
\* are still recorded.
C8_BadCellsSkipped ==
    /\ (error # NoError /\ pc = "cells") => Numeric(CellOf(i, j))
    /\ InRow => node_name = rows[CurRow + 2][1]
    /\ (InRow /\ (error = NoError \/ pc = "cells")) =>
          \A b \in Range(headers) \cup DOMAIN correlations[node_name] :
             (b \in DOMAIN correlations[node_name]) <=>
                \E c \in 0..(Passed - 1) :
                   /\ Numeric(CellOf(CurRow, c))
                   /\ c > CurRow
                   /\ c < Len(headers) /\ headers[c + 1] = b

\* a row in which a non-numeric cell of the upper triangle has been passed,
\* with no error, and a numeric one of the same row is recorded
C8_Witness ==
    /\ InRow
    /\ error = NoError
    /\ \E c, d \in 0..(Passed - 1) :
          /\ c > CurRow /\ CellOf(CurRow, c) # <<>> /\ ~Numeric(CellOf(CurRow, c))
          /\ d > CurRow /\ Numeric(CellOf(CurRow, d))
          /\ headers[d + 1] \in DOMAIN correlations[node_name]

\* the number of node names the header row gives
NumNodes == IF rows = <<>> \/ Len(rows[1]) = 0 THEN 0 ELSE Len(rows[1]) - 1

\* data row r has no cell, or a numeric cell past the row's index at a position
\* the header has no name for
ShapeError(r) ==
    \/ Len(rows[r + 2]) = 0
    \/ \E c \in 0..(Width(r) - 1) : c > r /\ c >= NumNodes /\ Numeric(CellOf(r, c))

\* C9: a table with a data row of zero cells, or with a numeric cell of the
\* upper triangle at a position out of bounds for the header's names, never
\* has its document written nor a console line printed; the run never gets
\* past that row, and it ends with an error.
C9_ShapeErrorBeforeOutput ==
    \A r \in 0..(NumDataRows - 1) :
        ShapeError(r) =>
            /\ outfile = <<>>
            /\ console = <<>>
            /\ pc \in {"headers", "loop", "cells"}
            /\ i <= r
            /\ Stopped => error = IndexError

\* the run has stopped with an error at a data row with a shape error, after
\* an earlier row went through
C9_Witness ==
    /\ error = IndexError
    /\ pc \in {"loop", "cells"}
    /\ i > 0
    /\ ShapeError(i)
    /\ correlations # EmptyDict
    /\ outfile = <<>>

\* data row r has at least one cell and fewer cells than the header row
Short(r) == Len(rows[r + 2]) >= 1 /\ Len(rows[r + 2]) < Len(rows[1])

\* C10: a data row with at least one cell and fewer cells than the header is
\* no error: the run never fails at such a row, a table whose data rows all
\* have a cell and no more cells than the header completes and is written,
\* only cells present in the row are examined, the row's name gets its
\* mapping, and that mapping has no entry for a column the row lacks.
C10_ShortRowsAccepted ==
    /\ (error # NoError /\ pc \in {"loop", "cells"}) => ~Short(i)
    /\ (rows # <<>> /\ \A r \in 0..(NumDataRows - 1) :
                          Len(rows[r + 2]) >= 1 /\ Len(rows[r + 2]) <= Len(rows[1]))
          => (error = NoError /\ (Stopped => (pc = "done" /\ Written)))
    /\ (pc = "cells") => j < Width(i)
    /\ Written =>
          \A r \in 0..(NumDataRows - 1) :
             Short(r) =>
                /\ rows[r + 2][1] \in DOMAIN Doc.correlations
                /\ LastOfName(r) =>
                      \A b \in DOMAIN Doc.correlations[rows[r + 2][1]] :
                         \E c \in 0..(Width(r) - 1) : c > r /\ Doc.nodes[c + 1] = b

\* a written document with the entry of a short row
C10_Witness ==
    /\ Written
    /\ pc = "done"
    /\ \E r \in 0..(NumDataRows - 1) :
          Short(r) /\ LastOfName(r) /\ Doc.correlations[rows[r + 2][1]] # EmptyDict

====
